---- MODULE Spec2Model ----
(***************************************************************************)
(* Modpack Bridge (src/bridge.js): the per-file installer POST             *)
(* /install-files, the legacy archive installer POST /install, GET         *)
(* /status, their helpers detectInstances, ensureDir and downloadFile, the *)
(* filesystem they act on, and the device identity file read at start.     *)
(*                                                                         *)
(* A path is a sequence of segments below the filesystem root.  A JS value *)
(* that is undefined or the empty string is the empty sequence / empty     *)
(* string: the code only ever tests such values for truthiness.            *)
(* Node runs every callback to completion: `running` names the request     *)
(* whose synchronous segment is executing, and no other callback starts    *)
(* until it is released at an await or at the end of the handler.          *)
(***************************************************************************)
EXTENDS Naturals, Sequences, FiniteSets, TLC

\* ------------------------------------------------------------------ bounds

\* Longest items list of a request that arrives alone.
MaxItems == 2

\* Longest items list of each of two overlapping requests.
MaxConcItems == 2

\* Most process starts in a history of the device identity file.
MaxRuns == 3

\* ------------------------------------------------------------------ names

Requests == {"A", "B"}
NoReq == "none"

Home == <<"home">>
EnvAppData == <<"home", "AppData", "Roaming">>
Unsupported == <<"!Unsupported OS">>
Platforms == {"win32", "darwin", "linux", "sunos"}

\* Names of the folders found in <base>/versions, and their characters.
VersionFolders == {"v.1", "v..1"}
NameChars == [n \in VersionFolders |->
                IF n = "v.1" THEN <<"v", ".", "1">> ELSE <<"v", ".", ".", "1">>]

WordChars == {"v", "1", "_", "-"}
DefaultId == <<"d", "e", "f", "a", "u", "l", "t">>
VerPrefix == <<"v", "e", "r", "_">>

\* Faulty variant: config is not reset.
ResetFoldersNoConfig == <<"mods", "resourcepacks">>

ResetFolders == <<"mods", "config", "resourcepacks">>

\* ------------------------------------------------------------------ paths

RECURSIVE NormalizeFrom(_, _)
NormalizeFrom(acc, rest) ==
    IF rest = <<>> THEN acc
    ELSE LET s == Head(rest) IN
         IF s = ".." THEN
            NormalizeFrom(IF acc = <<>> THEN acc ELSE SubSeq(acc, 1, Len(acc) - 1),
                          Tail(rest))
         ELSE IF s = "." THEN NormalizeFrom(acc, Tail(rest))
         ELSE NormalizeFrom(Append(acc, s), Tail(rest))

\* path.join(a, b): concatenation, then '.' and '..' segments resolved.
pathJoin(a, b) == NormalizeFrom(<<>>, a \o b)

\* path.dirname(p)
pathDirname(p) == IF p = <<>> THEN p ELSE SubSeq(p, 1, Len(p) - 1)

IsPrefix(p, q) == Len(p) <= Len(q) /\ SubSeq(q, 1, Len(p)) = p

\* ------------------------------------------------------------------ helpers

\* Faulty variant: every other platform is taken for a Unix.
getMinecraftPathAnyUnix(plat) ==
    CASE plat = "win32"  -> pathJoin(EnvAppData, <<".minecraft">>)
      [] plat = "darwin" -> pathJoin(Home, <<"Library", "Application Support", "minecraft">>)
      [] OTHER           -> pathJoin(Home, <<".minecraft">>)

getMinecraftPath(plat) ==
    CASE plat = "win32"  -> pathJoin(EnvAppData, <<".minecraft">>)
      [] plat = "darwin" -> pathJoin(Home, <<"Library", "Application Support", "minecraft">>)
      [] plat = "linux"  -> pathJoin(Home, <<".minecraft">>)
      [] OTHER           -> Unsupported

\* Faulty variant: one '_' for each character outside [A-Za-z0-9_-].
ReplaceEachUnsafe(chars, inRun) ==
    [k \in 1..Len(chars) |-> IF chars[k] \in WordChars THEN chars[k] ELSE "_"]

\* folderName.replace(/[^\w\-]+/g, '_'): every maximal run of characters
\* outside [A-Za-z0-9_-] becomes one '_'.
RECURSIVE ReplaceUnsafe(_, _)
ReplaceUnsafe(chars, inRun) ==
    IF chars = <<>> THEN <<>>
    ELSE IF Head(chars) \in WordChars
         THEN <<Head(chars)>> \o ReplaceUnsafe(Tail(chars), FALSE)
         ELSE (IF inRun THEN <<>> ELSE <<"_">>) \o ReplaceUnsafe(Tail(chars), TRUE)

safeId(folderName) == VerPrefix \o ReplaceUnsafe(NameChars[folderName], FALSE)

\* The orders in which readdirSync may list the entries of a directory.
RECURSIVE Orderings(_)
Orderings(S) ==
    IF S = {} THEN {<<>>}
    ELSE UNION {{<<x>> \o rest : rest \in Orderings(S \ {x})} : x \in S}

VersionInstance(versionsDir, folderName) ==
    [id |-> safeId(folderName), path |-> pathJoin(versionsDir, <<folderName>>),
     kind |-> "version"]

\* detectInstances(): the lists it may return on platform plat with
\* directories ds ([] when getMinecraftPath throws).
detectInstances(plat, ds) ==
    LET mcPath == getMinecraftPath(plat)
        versionsDir == pathJoin(mcPath, <<"versions">>)
        default == [id |-> DefaultId, path |-> mcPath, kind |-> "default"]
        entries == IF versionsDir \in ds
                   THEN {n \in VersionFolders : pathJoin(versionsDir, <<n>>) \in ds}
                   ELSE {}
    IN  IF mcPath = Unsupported THEN {<<>>}
        ELSE {<<default>> \o [i \in 1..Len(o) |-> VersionInstance(versionsDir, o[i])] :
                o \in Orderings(entries)}

\* instances.find((i) => i.id === id): the index of the first match, 0 if none.
FindId(instances, id) ==
    IF \E i \in 1..Len(instances) : instances[i].id = id
    THEN CHOOSE i \in 1..Len(instances) :
            /\ instances[i].id = id
            /\ \A j \in 1..(i - 1) : instances[j].id # id
    ELSE 0

\* Faulty variant: the default instance is preferred to the one asked for.
resolveTargetDefaultFirst(plat, instanceId, instances) ==
    LET byId == FindId(instances, instanceId)
        byDefault == FindId(instances, DefaultId)
    IN  IF byDefault # 0 THEN instances[byDefault].path
        ELSE IF byId # 0 THEN instances[byId].path
        ELSE IF Len(instances) > 0 THEN instances[1].path
        ELSE getMinecraftPath(plat)

\* The root-resolution expression of /install-files, given the list that
\* detectInstances returned: Unsupported when getMinecraftPath throws.
resolveTarget(plat, instanceId, instances) ==
    LET byId == FindId(instances, instanceId)
        byDefault == FindId(instances, DefaultId)
    IN  IF byId # 0 THEN instances[byId].path
        ELSE IF byDefault # 0 THEN instances[byDefault].path
        ELSE IF Len(instances) > 0 THEN instances[1].path
        ELSE getMinecraftPath(plat)

\* mkdirSync(dir, {recursive: true}): dir and its missing ancestors.
Ancestors(dir) == {SubSeq(dir, 1, i) : i \in 1..Len(dir)}

\* Faulty variant: the config branch is missing.
subFolderOfNoConfig(type) ==
    LET t == IF type = "" THEN "mod" ELSE type IN
    IF t = "resourcepack" THEN "resourcepacks" ELSE "mods"

\* item.type -> sub folder
subFolderOf(type) ==
    LET t == IF type = "" THEN "mod" ELSE type IN
    IF t = "resourcepack" THEN "resourcepacks"
    ELSE IF t = "config" THEN "config"
    ELSE "mods"

\* Faulty variant: the fileName test is missing.
itemSkippedNoFileName(item) == item.isNull \/ item.url = ""

\* !item || !item.url || !item.fileName
itemSkipped(item) == item.isNull \/ item.url = "" \/ item.fileName = <<>>

\* Faulty variant: the length test is missing.
itemsNotArray(items) == ~items.isArray

\* !Array.isArray(items) || items.length === 0
itemsRejected(items) == ~items.isArray \/ Len(items.list) = 0

\* Faulty variant: the test is inverted, 'patch' resets.
isPatchMode(mode) == mode = "patch"

\* Faulty variant: every mode but 'patch' resets.
isNotPatchMode(mode) == mode # "patch"

\* mode === 'full'
isFullMode(mode) == mode = "full"

\* !rootDir
noGameDir(gameDir) == gameDir = <<>>

\* ------------------------------------------------------------------ state

VARIABLES
    platform,   \* process.platform
    dirs,       \* the directories that exist
    files,      \* path -> content, for the regular files that exist
    body,       \* request -> the body it posts
    pc,         \* request -> position of its handler
    running,    \* the request whose synchronous segment executes, or NoReq
    rootDir,    \* request -> resolved rootDir
    seen,       \* request -> the list detectInstances returned to it
    resetIdx,   \* request -> position in ['mods','config','resourcepacks']
    rmFailed,   \* request -> folders whose rmSync threw (swallowed)
    idx,        \* request -> position in items
    fetched,    \* request -> positions of the items handed to downloadFile
    failedAt,   \* request -> position of the item whose fetch rejected, or 0
    dl,         \* request -> its current downloadFile call
    resp,       \* request -> status of the response sent, 0 before
    ops,        \* request -> the helpers its handler has called
    lost,       \* request -> its items whose finished file a reset removed during its next download
    crashed,    \* an 'error' event nobody listens to has ended the process
    status,     \* the answer to GET /status, once it is asked
    configFile, \* the device identity file on disk
    device,     \* the process runs so far and the DEVICE_TOKEN of the last one
    armed,      \* request -> its success response scheduled process.exit
    exited      \* the scheduled process.exit(0) has run

vars == <<platform, dirs, files, body, pc, running, rootDir, seen, resetIdx,
          rmFailed, idx, fetched, failedAt, dl, resp, ops, lost, crashed,
          status,
          configFile,
          device,
          armed,
          exited>>

NoDownload ==
    [dest |-> <<>>, item |-> 0, file |-> "none", linked |-> FALSE,
     http |-> "none", error |-> "", cleanup |-> "no"]

\* GET /status not asked, asked, answered.
NoStatus == [state |-> "none", mcPath |-> <<>>, instances |-> <<>>]
StatusAsked == [state |-> "new", mcPath |-> <<>>, instances |-> <<>>]
StatusAnswer(mcPath, instances) ==
    [state |-> "done", mcPath |-> mcPath, instances |-> instances]

OldContent == [by |-> "old", item |-> 0, complete |-> TRUE]

\* ------------------------------------------------------------------ device identity

\* The config file: missing, there but not readable, not JSON, or JSON
\* whose token is the given one (0: no token, or a falsy one).  A token is
\* the number of the randomUUID() call that made it.
NoFile == [kind |-> "missing", token |-> 0]
JsonFile(t) == [kind |-> "json", token |-> t]
ForeignToken == MaxRuns + 1
ConfigFiles ==
    {NoFile, [kind |-> "unreadable", token |-> 0], [kind |-> "corrupt", token |-> 0]}
        \cup {JsonFile(t) : t \in 0..ForeignToken}

\* Faulty variant: the token is looked up under a key the file never has.
storedTokenWrongKey(file) == 0

\* What the try block of getOrCreateDeviceToken returns: json.token when
\* the file is there, readable, JSON and holds a truthy token; 0 when the
\* function falls through to generating one.
storedToken(file) == IF file.kind = "json" THEN file.token ELSE 0

\* getOrCreateDeviceToken() on config file `file`, when randomUUID() gives
\* newToken and writeFileSync succeeds iff written.
getOrCreateDeviceToken(file, newToken, written) ==
    IF storedToken(file) # 0
    THEN [token |-> storedToken(file), file |-> file,
          generated |-> FALSE, wrote |-> FALSE]
    ELSE [token |-> newToken, file |-> IF written THEN JsonFile(newToken) ELSE file,
          generated |-> TRUE, wrote |-> written]

\* No process has run yet.
NoDevice ==
    [run |-> 0, token |-> 0, generated |-> FALSE, wrote |-> FALSE, before |-> NoFile,
     issued |-> 0, kept |-> 0, keptBefore |-> 0]

\* The process of the server: the first start on this machine.
FirstStart ==
    [run |-> 1, token |-> 1, generated |-> TRUE, wrote |-> TRUE, before |-> NoFile,
     issued |-> 1, kept |-> 1, keptBefore |-> 0]

\* ------------------------------------------------------------------ inputs

Modes == {"patch", "full", ""}
Types == {"", "mod", "resourcepack", "config", "shader"}
Url == "http://host/file"
FileNames == {<<"a">>, <<"..", "a">>}

Item(t, u, f) == [isNull |-> FALSE, type |-> t, url |-> u, fileName |-> f]
NullItem == [isNull |-> TRUE, type |-> "", url |-> "", fileName |-> <<>>]

\* An item of each type, one whose fileName climbs out of its folder, and
\* the three kinds of item the loop skips.
Items ==
    {Item(t, Url, <<"a">>) : t \in Types}
        \cup {Item("config", Url, f) : f \in FileNames}
        \cup {NullItem, Item("mod", "", <<"a">>), Item("mod", Url, <<>>)}

ConcItems == {Item("mod", Url, <<"a">>), Item("config", Url, <<"a">>)}

SeqsUpTo(S, n) == UNION {[1..k -> S] : k \in 0..n}

NotAList == [isArray |-> FALSE, list |-> <<>>]
ListOf(l) == [isArray |-> TRUE, list |-> l]

GameDirs == {<<>>, <<"games", "pack">>}
InstanceIds == {<<>>, DefaultId, safeId("v.1"), <<"v", "e", "r", "_", "v", "_", "_", "1">>}

\* A POST /install-files and its body.
Body(m, g, i, it) ==
    [route |-> "/install-files", mode |-> m, gameDir |-> g, instanceId |-> i,
     items |-> it, url |-> "", autoTerminate |-> FALSE]

\* A POST /install and its body.
InstallBody(u, m) ==
    [route |-> "/install", mode |-> m, gameDir |-> <<>>, instanceId |-> <<>>,
     items |-> NotAList, url |-> u, autoTerminate |-> FALSE]

\* The same request with autoTerminate set, or not.
WithAutoTerminate(b, a) == [b EXCEPT !.autoTerminate = a]
EmptyBody == Body("", <<>>, <<>>, NotAList)

\* A game directory in use: the three sub folders with files in them, and
\* the version folders, one of them with mods of its own.
PopulatedDirs(base) ==
    Ancestors(base)
        \cup {pathJoin(base, <<f>>) : f \in {"mods", "config", "resourcepacks", "versions"}}
        \cup {pathJoin(base, <<"versions", n>>) : n \in VersionFolders}
        \cup {pathJoin(base, <<"versions", "v.1", "mods">>)}

PopulatedFiles(base) ==
    {pathJoin(base, <<"mods", "a">>), pathJoin(base, <<"mods", "old.jar">>),
     pathJoin(base, <<"config", "old.cfg">>), pathJoin(base, <<"a">>),
     pathJoin(base, <<"versions", "v.1", "mods", "old.jar">>)}

InitFs(populated) ==
    LET base == getMinecraftPath(platform) IN
    IF populated /\ base # Unsupported
    THEN /\ dirs = {Home} \cup PopulatedDirs(base)
         /\ files = [p \in PopulatedFiles(base) |-> OldContent]
    ELSE /\ dirs = {Home}
         /\ files = [p \in {} |-> OldContent]

InitRest ==
    /\ running = NoReq
    /\ rootDir = [r \in Requests |-> <<>>]
    /\ seen = [r \in Requests |-> <<>>]
    /\ resetIdx = [r \in Requests |-> 0]
    /\ rmFailed = [r \in Requests |-> {}]
    /\ idx = [r \in Requests |-> 0]
    /\ fetched = [r \in Requests |-> <<>>]
    /\ failedAt = [r \in Requests |-> 0]
    /\ dl = [r \in Requests |-> NoDownload]
    /\ resp = [r \in Requests |-> 0]
    /\ ops = [r \in Requests |-> {}]
    /\ lost = [r \in Requests |-> {}]
    /\ crashed = FALSE
    /\ armed = [r \in Requests |-> FALSE]
    /\ exited = FALSE

\* One request, any target selector on any platform, with or without
\* autoTerminate, and a status query.
InitSelectors ==
    /\ platform \in Platforms
    /\ status = StatusAsked
    /\ \E populated \in BOOLEAN : InitFs(populated)
    /\ \E m \in Modes, g \in GameDirs, i \in InstanceIds, a \in BOOLEAN,
          it \in {NotAList, ListOf(<<>>), ListOf(<<Item("mod", Url, <<"a">>)>>)} :
            body = [r \in Requests |-> IF r = "A"
                                       THEN WithAutoTerminate(Body(m, g, i, it), a)
                                       ELSE EmptyBody]
    /\ pc = [r \in Requests |-> IF r = "A" THEN "new" ELSE "absent"]

\* One request for the default instance, any items.
InitItems ==
    /\ platform = "linux"
    /\ status = NoStatus
    /\ \E populated \in BOOLEAN : InitFs(populated)
    /\ \E m \in Modes, l \in SeqsUpTo(Items, MaxItems) :
            body = [r \in Requests |-> IF r = "A" THEN Body(m, <<>>, <<>>, ListOf(l))
                                       ELSE EmptyBody]
    /\ pc = [r \in Requests |-> IF r = "A" THEN "new" ELSE "absent"]

\* Two overlapping requests for the default instance: a patch of up to
\* MaxConcItems items, a mod or a config followed by mods, and a request
\* for one mod, in full mode or, against a one-item patch, in patch mode.
InitOverlap ==
    /\ platform = "linux"
    /\ status = NoStatus
    /\ InitFs(TRUE)
    /\ \E mB \in {"patch", "full"}, k \in 1..MaxConcItems, iA \in ConcItems :
            /\ mB = "patch" => k = 1
            /\ body = [r \in Requests |->
                         IF r = "A" THEN Body("patch", <<>>, <<>>, ListOf([i \in 1..k |->
                                            IF i = 1 THEN iA ELSE Item("mod", Url, <<"a">>)]))
                         ELSE Body(mB, <<>>, DefaultId, ListOf(<<Item("mod", Url, <<"a">>)>>))]
    /\ pc = [r \in Requests |-> "new"]

\* One legacy request for an archive.
InitInstall ==
    /\ platform \in {"linux", "sunos"}
    /\ status = NoStatus
    /\ \E populated \in BOOLEAN : InitFs(populated)
    /\ \E u \in {"", Url}, m \in Modes, a \in BOOLEAN :
            body = [r \in Requests |-> IF r = "A" THEN WithAutoTerminate(InstallBody(u, m), a)
                                       ELSE EmptyBody]
    /\ pc = [r \in Requests |-> IF r = "A" THEN "zipNew" ELSE "absent"]

\* The server runs in the first process started on the machine.
InitServer == configFile = JsonFile(1) /\ device = FirstStart

Init == (InitSelectors \/ InitItems \/ InitOverlap \/ InitInstall) /\ InitRest /\ InitServer

\* No request at all: the history of the device identity file alone.
InitToken ==
    /\ platform = "linux"
    /\ status = NoStatus
    /\ InitFs(FALSE)
    /\ body = [r \in Requests |-> EmptyBody]
    /\ pc = [r \in Requests |-> "absent"]
    /\ InitRest
    /\ configFile \in {NoFile, [kind |-> "corrupt", token |-> 0], JsonFile(ForeignToken)}
    /\ device = NoDevice

\* ------------------------------------------------------------------ filesystem

\* fs.rmSync(target, {recursive: true, force: true}) succeeding.
DirsAfterRm(target) == {d \in dirs : ~IsPrefix(target, d)}
FilesAfterRm(target) ==
    [p \in {q \in DOMAIN files : ~IsPrefix(target, q)} |-> files[p]]

\* A write stream keeps writing to a file whose name was removed: its data
\* no longer shows under the path.
DownloadsAfterRm(target) ==
    [q \in Requests |->
        IF IsPrefix(target, dl[q].dest) THEN [dl[q] EXCEPT !.linked = FALSE] ELSE dl[q]]

\* The finished files of requests suspended in a download that a removal
\* by r takes away.
LostAfterRm(r, target) ==
    [q \in Requests |->
        IF q = r \/ pc[q] # "await" THEN lost[q]
        ELSE lost[q] \cup {files[p].item : p \in {x \in DOMAIN files :
                              IsPrefix(target, x) /\ files[x].by = q /\ files[x].complete}}]

FilesWith(p, content) ==
    [q \in DOMAIN files \cup {p} |-> IF q = p THEN content ELSE files[q]]

\* ------------------------------------------------------------------ /status

\* app.get('/status'): the whole handler; mcPath is '' when
\* getMinecraftPath throws.
Status ==
    /\ ~crashed /\ ~exited /\ running = NoReq /\ status.state = "new"
    /\ \E instances \in detectInstances(platform, dirs) :
          LET mcPath == getMinecraftPath(platform) IN
          status' = StatusAnswer(IF mcPath = Unsupported THEN <<>> ELSE mcPath, instances)
    /\ UNCHANGED <<platform, dirs, files, body, pc, running, rootDir, seen, resetIdx,
                   rmFailed, idx, fetched, failedAt, dl, resp, ops, crashed>>
    /\ UNCHANGED lost
    /\ UNCHANGED configFile
    /\ UNCHANGED device
    /\ UNCHANGED armed
    /\ UNCHANGED exited

\* ------------------------------------------------------------------ /install-files

\* Faulty variant: a request waits while another one works on the same files.
ReceiveExclusive(r) ==
    /\ ~crashed /\ ~exited /\ running = NoReq /\ pc[r] = "new"
    /\ \A q \in Requests \ {r} : pc[q] \in {"new", "absent", "done"}
    /\ running' = r
    /\ pc' = [pc EXCEPT ![r] = "validate"]
    /\ UNCHANGED <<platform, dirs, files, body, rootDir, seen, resetIdx, rmFailed,
                   idx, fetched, failedAt, dl, resp, ops, crashed>>
    /\ UNCHANGED lost
    /\ UNCHANGED status
    /\ UNCHANGED configFile
    /\ UNCHANGED device
    /\ UNCHANGED armed
    /\ UNCHANGED exited

\* The request arrives and its handler starts.
Receive(r) ==
    /\ ~crashed /\ ~exited /\ running = NoReq /\ pc[r] = "new"
    /\ running' = r
    /\ pc' = [pc EXCEPT ![r] = "validate"]
    /\ UNCHANGED <<platform, dirs, files, body, rootDir, seen, resetIdx, rmFailed,
                   idx, fetched, failedAt, dl, resp, ops, crashed>>
    /\ UNCHANGED lost
    /\ UNCHANGED status
    /\ UNCHANGED configFile
    /\ UNCHANGED device
    /\ UNCHANGED armed
    /\ UNCHANGED exited

\* if (!Array.isArray(items) || items.length === 0) return res.status(400)...
Validate(r) ==
    /\ ~crashed /\ ~exited /\ running = r /\ pc[r] = "validate"
    /\ IF itemsRejected(body[r].items)
       THEN /\ resp' = [resp EXCEPT ![r] = 400]
            /\ pc' = [pc EXCEPT ![r] = "done"]
            /\ running' = NoReq
       ELSE /\ pc' = [pc EXCEPT ![r] = "resolve"]
            /\ UNCHANGED <<resp, running>>
    /\ UNCHANGED <<platform, dirs, files, body, rootDir, seen, resetIdx, rmFailed,
                   idx, fetched, failedAt, dl, ops, crashed>>
    /\ UNCHANGED lost
    /\ UNCHANGED status
    /\ UNCHANGED configFile
    /\ UNCHANGED device
    /\ UNCHANGED armed
    /\ UNCHANGED exited

\* let rootDir = gameDir; if (!rootDir) { ... }
ResolveRoot(r) ==
    /\ ~crashed /\ ~exited /\ running = r /\ pc[r] = "resolve"
    /\ IF noGameDir(body[r].gameDir)
       THEN \E instances \in detectInstances(platform, dirs) :
              LET target == resolveTarget(platform, body[r].instanceId, instances) IN
              /\ seen' = [seen EXCEPT ![r] = instances]
              /\ ops' = [ops EXCEPT ![r] = @ \cup {"detectInstances"}]
              /\ IF target = Unsupported
                 THEN /\ pc' = [pc EXCEPT ![r] = "catch"]
                      /\ UNCHANGED rootDir
                 ELSE /\ pc' = [pc EXCEPT ![r] = "ensureRoot"]
                      /\ rootDir' = [rootDir EXCEPT ![r] = target]
       ELSE /\ rootDir' = [rootDir EXCEPT ![r] = body[r].gameDir]
            /\ pc' = [pc EXCEPT ![r] = "ensureRoot"]
            /\ UNCHANGED <<seen, ops>>
    /\ UNCHANGED <<platform, dirs, files, body, running, resetIdx, rmFailed,
                   idx, fetched, failedAt, dl, resp, crashed>>
    /\ UNCHANGED lost
    /\ UNCHANGED status
    /\ UNCHANGED configFile
    /\ UNCHANGED device
    /\ UNCHANGED armed
    /\ UNCHANGED exited

\* ensureDir(rootDir): mkdirSync may throw, which the handler catches.
EnsureRoot(r) ==
    /\ ~crashed /\ ~exited /\ running = r /\ pc[r] = "ensureRoot"
    /\ ops' = [ops EXCEPT ![r] = @ \cup {"ensureDir"}]
    /\ IF rootDir[r] \in dirs
       THEN /\ pc' = [pc EXCEPT ![r] = "reset"]
            /\ UNCHANGED dirs
       ELSE \E created \in BOOLEAN :
              IF created
              THEN /\ dirs' = dirs \cup Ancestors(rootDir[r])
                   /\ pc' = [pc EXCEPT ![r] = "reset"]
              ELSE /\ pc' = [pc EXCEPT ![r] = "catch"]
                   /\ UNCHANGED dirs
    /\ resetIdx' = [resetIdx EXCEPT ![r] = 1]
    /\ UNCHANGED <<platform, files, body, running, rootDir, seen, rmFailed,
                   idx, fetched, failedAt, dl, resp, crashed>>
    /\ UNCHANGED lost
    /\ UNCHANGED status
    /\ UNCHANGED configFile
    /\ UNCHANGED device
    /\ UNCHANGED armed
    /\ UNCHANGED exited

\* if (mode === 'full') is false: nothing is removed.
NoReset(r) ==
    /\ ~crashed /\ ~exited /\ running = r /\ pc[r] = "reset"
    /\ ~isFullMode(body[r].mode)
    /\ pc' = [pc EXCEPT ![r] = "loop"]
    /\ idx' = [idx EXCEPT ![r] = 1]
    /\ UNCHANGED <<platform, dirs, files, body, running, rootDir, seen, resetIdx,
                   rmFailed, fetched, failedAt, dl, resp, ops, crashed>>
    /\ UNCHANGED lost
    /\ UNCHANGED status
    /\ UNCHANGED configFile
    /\ UNCHANGED device
    /\ UNCHANGED armed
    /\ UNCHANGED exited

\* Faulty variant: rmSync is not in a try of its own, its error ends the
\* reset and goes to the handler's catch.
ResetFolderThrowing(r) ==
    /\ ~crashed /\ ~exited /\ running = r /\ pc[r] = "reset"
    /\ isFullMode(body[r].mode)
    /\ LET folder == ResetFolders[resetIdx[r]]
           target == pathJoin(rootDir[r], <<folder>>)
       IN  \E removed \in BOOLEAN :
             LET thrown == target \in dirs /\ ~removed IN
             /\ ops' = [ops EXCEPT ![r] = @ \cup (IF target \in dirs
                                                  THEN {"existsSync", "rmSync"}
                                                  ELSE {"existsSync"})]
             /\ IF target \in dirs /\ removed
                THEN /\ dirs' = DirsAfterRm(target)
                     /\ files' = FilesAfterRm(target)
                     /\ dl' = DownloadsAfterRm(target)
                     /\ lost' = LostAfterRm(r, target)
                ELSE UNCHANGED <<dirs, files, dl, lost>>
             /\ rmFailed' = IF thrown THEN [rmFailed EXCEPT ![r] = @ \cup {folder}]
                            ELSE rmFailed
             /\ IF thrown
                THEN /\ pc' = [pc EXCEPT ![r] = "catch"]
                     /\ UNCHANGED <<resetIdx, idx>>
                ELSE IF resetIdx[r] = Len(ResetFolders)
                THEN /\ pc' = [pc EXCEPT ![r] = "loop"]
                     /\ idx' = [idx EXCEPT ![r] = 1]
                     /\ UNCHANGED resetIdx
                ELSE /\ resetIdx' = [resetIdx EXCEPT ![r] = @ + 1]
                     /\ UNCHANGED <<pc, idx>>
    /\ UNCHANGED <<platform, body, running, rootDir, seen, fetched, failedAt,
                   resp, crashed>>
    /\ UNCHANGED status
    /\ UNCHANGED configFile
    /\ UNCHANGED device
    /\ UNCHANGED armed
    /\ UNCHANGED exited

\* One round of ['mods','config','resourcepacks'].forEach: existsSync, then
\* rmSync in a try whose catch is empty.
ResetFolder(r) ==
    /\ ~crashed /\ ~exited /\ running = r /\ pc[r] = "reset"
    /\ isFullMode(body[r].mode)
    /\ LET folder == ResetFolders[resetIdx[r]]
           target == pathJoin(rootDir[r], <<folder>>)
       IN  IF target \in dirs
           THEN /\ ops' = [ops EXCEPT ![r] = @ \cup {"existsSync", "rmSync"}]
                /\ \E removed \in BOOLEAN :
                     IF removed
                     THEN /\ dirs' = DirsAfterRm(target)
                          /\ files' = FilesAfterRm(target)
                          /\ dl' = DownloadsAfterRm(target)
                          /\ lost' = LostAfterRm(r, target)
                          /\ UNCHANGED rmFailed
                     ELSE /\ rmFailed' = [rmFailed EXCEPT ![r] = @ \cup {folder}]
                          /\ UNCHANGED <<dirs, files, dl, lost>>
           ELSE /\ ops' = [ops EXCEPT ![r] = @ \cup {"existsSync"}]
                /\ UNCHANGED <<dirs, files, dl, rmFailed, lost>>
    /\ IF resetIdx[r] = Len(ResetFolders)
       THEN /\ pc' = [pc EXCEPT ![r] = "loop"]
            /\ idx' = [idx EXCEPT ![r] = 1]
            /\ UNCHANGED resetIdx
       ELSE /\ resetIdx' = [resetIdx EXCEPT ![r] = @ + 1]
            /\ UNCHANGED <<pc, idx>>
    /\ UNCHANGED <<platform, body, running, rootDir, seen, fetched, failedAt,
                   resp, crashed>>
    /\ UNCHANGED status
    /\ UNCHANGED configFile
    /\ UNCHANGED device
    /\ UNCHANGED armed
    /\ UNCHANGED exited

\* if (!item || !item.url || !item.fileName) continue;
SkipItem(r) ==
    /\ ~crashed /\ ~exited /\ running = r /\ pc[r] = "loop"
    /\ idx[r] <= Len(body[r].items.list)
    /\ itemSkipped(body[r].items.list[idx[r]])
    /\ idx' = [idx EXCEPT ![r] = @ + 1]
    /\ UNCHANGED <<platform, dirs, files, body, pc, running, rootDir, seen, resetIdx,
                   rmFailed, fetched, failedAt, dl, resp, ops, crashed>>
    /\ UNCHANGED lost
    /\ UNCHANGED status
    /\ UNCHANGED configFile
    /\ UNCHANGED device
    /\ UNCHANGED armed
    /\ UNCHANGED exited

\* The destination of an item under rootDir.
destPathOf(root, item) ==
    pathJoin(pathJoin(root, <<subFolderOf(item.type)>>), item.fileName)

\* Faulty variant: the download is started and not awaited.
StartDownloadNoAwait(r) ==
    /\ ~crashed /\ ~exited /\ running = r /\ pc[r] = "loop"
    /\ idx[r] <= Len(body[r].items.list)
    /\ ~itemSkipped(body[r].items.list[idx[r]])
    /\ LET destPath == destPathOf(rootDir[r], body[r].items.list[idx[r]])
           dir == pathDirname(destPath)
       IN  /\ ops' = [ops EXCEPT ![r] = @ \cup {"downloadFile"}]
           /\ fetched' = [fetched EXCEPT ![r] = Append(@, idx[r])]
           /\ IF dir \notin dirs /\ (\E a \in Ancestors(dir) : a \in DOMAIN files)
              THEN \* mkdirSync throws inside the executor: the promise rejects
                   /\ failedAt' = [failedAt EXCEPT ![r] = idx[r]]
                   /\ pc' = [pc EXCEPT ![r] = "catch"]
                   /\ UNCHANGED <<dirs, dl, running, idx>>
              ELSE /\ dirs' = IF dir \in dirs THEN dirs ELSE dirs \cup Ancestors(dir)
                   /\ dl' = [dl EXCEPT ![r] =
                                [dest |-> destPath, item |-> idx[r], file |-> "opening",
                                 linked |-> FALSE, http |-> "pending", error |-> "",
                                 cleanup |-> "no"]]
                   /\ idx' = [idx EXCEPT ![r] = @ + 1]
                   /\ UNCHANGED <<failedAt, pc, running>>
    /\ UNCHANGED <<platform, files, body, rootDir, seen, resetIdx, rmFailed,
                   resp, crashed>>
    /\ UNCHANGED lost
    /\ UNCHANGED status
    /\ UNCHANGED configFile
    /\ UNCHANGED device
    /\ UNCHANGED armed
    /\ UNCHANGED exited

\* await downloadFile(item.url, destPath), up to the await: ensureDir of
\* the parent, createWriteStream (the open is pending), client.get.
StartDownload(r) ==
    /\ ~crashed /\ ~exited /\ running = r /\ pc[r] = "loop"
    /\ idx[r] <= Len(body[r].items.list)
    /\ ~itemSkipped(body[r].items.list[idx[r]])
    /\ LET destPath == destPathOf(rootDir[r], body[r].items.list[idx[r]])
           dir == pathDirname(destPath)
       IN  /\ ops' = [ops EXCEPT ![r] = @ \cup {"downloadFile"}]
           /\ fetched' = [fetched EXCEPT ![r] = Append(@, idx[r])]
           /\ IF dir \notin dirs /\ (\E a \in Ancestors(dir) : a \in DOMAIN files)
              THEN \* mkdirSync throws inside the executor: the promise rejects
                   /\ failedAt' = [failedAt EXCEPT ![r] = idx[r]]
                   /\ pc' = [pc EXCEPT ![r] = "catch"]
                   /\ UNCHANGED <<dirs, dl, running>>
              ELSE /\ dirs' = IF dir \in dirs THEN dirs ELSE dirs \cup Ancestors(dir)
                   /\ dl' = [dl EXCEPT ![r] =
                                [dest |-> destPath, item |-> idx[r], file |-> "opening",
                                 linked |-> FALSE, http |-> "pending", error |-> "",
                                 cleanup |-> "no"]]
                   /\ pc' = [pc EXCEPT ![r] = "await"]
                   /\ running' = NoReq
                   /\ UNCHANGED failedAt
    /\ UNCHANGED <<platform, files, body, rootDir, seen, resetIdx, rmFailed,
                   idx, resp, crashed>>
    /\ UNCHANGED lost
    /\ UNCHANGED status
    /\ UNCHANGED configFile
    /\ UNCHANGED device
    /\ UNCHANGED armed
    /\ UNCHANGED exited

\* res.json({ success: true }) after the loop, then
\* if (autoTerminate) setTimeout(() => process.exit(0), 1000).
RespondSuccess(r) ==
    /\ ~crashed /\ ~exited /\ running = r /\ pc[r] = "loop"
    /\ idx[r] > Len(body[r].items.list)
    /\ resp' = [resp EXCEPT ![r] = 200]
    /\ pc' = [pc EXCEPT ![r] = "done"]
    /\ running' = NoReq
    /\ UNCHANGED <<platform, dirs, files, body, rootDir, seen, resetIdx, rmFailed,
                   idx, fetched, failedAt, dl, ops, crashed>>
    /\ UNCHANGED lost
    /\ UNCHANGED status
    /\ UNCHANGED configFile
    /\ UNCHANGED device
    /\ armed' = [armed EXCEPT ![r] = body[r].autoTerminate]
    /\ UNCHANGED exited

\* Faulty variant: the error is logged and the loop goes on with the next item.
CatchAndContinue(r) ==
    /\ ~crashed /\ ~exited /\ running = r /\ pc[r] = "catch"
    /\ pc' = [pc EXCEPT ![r] = "loop"]
    /\ idx' = [idx EXCEPT ![r] = @ + 1]
    /\ UNCHANGED <<platform, dirs, files, body, running, rootDir, seen, resetIdx,
                   rmFailed, fetched, failedAt, dl, resp, ops, crashed>>
    /\ UNCHANGED lost
    /\ UNCHANGED status
    /\ UNCHANGED configFile
    /\ UNCHANGED device
    /\ UNCHANGED armed
    /\ UNCHANGED exited

\* Faulty variant: the catch puts back what the game directory held.
CatchAndRestore(r) ==
    /\ ~crashed /\ ~exited /\ running = r /\ pc[r] = "catch"
    /\ resp' = [resp EXCEPT ![r] = 500]
    /\ pc' = [pc EXCEPT ![r] = "done"]
    /\ running' = NoReq
    /\ dirs' = dirs \cup PopulatedDirs(getMinecraftPath(platform))
    /\ files' = [p \in DOMAIN files \cup PopulatedFiles(getMinecraftPath(platform)) |->
                    IF p \in DOMAIN files THEN files[p] ELSE OldContent]
    /\ UNCHANGED <<platform, body, rootDir, seen, resetIdx, rmFailed,
                   idx, fetched, failedAt, dl, ops, crashed>>
    /\ UNCHANGED lost
    /\ UNCHANGED status
    /\ UNCHANGED configFile
    /\ UNCHANGED device
    /\ UNCHANGED armed
    /\ UNCHANGED exited

\* Faulty variant: the exit is scheduled after the failure response too.
CatchAndArm(r) ==
    /\ ~crashed /\ ~exited /\ running = r /\ pc[r] = "catch"
    /\ resp' = [resp EXCEPT ![r] = 500]
    /\ pc' = [pc EXCEPT ![r] = "done"]
    /\ running' = NoReq
    /\ UNCHANGED <<platform, dirs, files, body, rootDir, seen, resetIdx, rmFailed,
                   idx, fetched, failedAt, dl, ops, crashed>>
    /\ UNCHANGED lost
    /\ UNCHANGED status
    /\ UNCHANGED configFile
    /\ UNCHANGED device
    /\ armed' = [armed EXCEPT ![r] = body[r].autoTerminate]
    /\ UNCHANGED exited

\* catch (err) { res.status(500).json(...) }
Catch(r) ==
    /\ ~crashed /\ ~exited /\ running = r /\ pc[r] = "catch"
    /\ resp' = [resp EXCEPT ![r] = 500]
    /\ pc' = [pc EXCEPT ![r] = "done"]
    /\ running' = NoReq
    /\ UNCHANGED <<platform, dirs, files, body, rootDir, seen, resetIdx, rmFailed,
                   idx, fetched, failedAt, dl, ops, crashed>>
    /\ UNCHANGED lost
    /\ UNCHANGED status
    /\ UNCHANGED configFile
    /\ UNCHANGED device
    /\ UNCHANGED armed
    /\ UNCHANGED exited

\* ------------------------------------------------------------------ /install, order

\* Faulty variant: the folders are reset before the archive is fetched.
InstallOrderResetFirst ==
    <<"zipReset", "zipDownload", "zipExtract", "zipUnlink", "zipRespond">>

\* The statements of the try block of /install after ensureDir(mcPath), in
\* program order.
InstallOrder ==
    <<"zipDownload", "zipReset", "zipExtract", "zipUnlink", "zipRespond">>

StepAfter(step) ==
    InstallOrder[(CHOOSE i \in 1..Len(InstallOrder) : InstallOrder[i] = step) + 1]

\* ------------------------------------------------------------------ downloadFile

\* The open of fs.createWriteStream(destPath) completes: the file is
\* created or truncated.  When it fails, the stream emits 'error', which
\* has no listener.
FileOpen(r) ==
    /\ ~crashed /\ ~exited /\ running = NoReq /\ dl[r].file = "opening"
    /\ IF pathDirname(dl[r].dest) \in dirs /\ dl[r].dest \notin dirs
       THEN /\ files' = FilesWith(dl[r].dest,
                                  [by |-> r, item |-> dl[r].item, complete |-> FALSE])
            /\ dl' = [dl EXCEPT ![r].file = "open", ![r].linked = TRUE]
            /\ UNCHANGED crashed
       ELSE /\ crashed' = TRUE
            /\ UNCHANGED <<files, dl>>
    /\ UNCHANGED <<platform, dirs, body, pc, running, rootDir, seen, resetIdx,
                   rmFailed, idx, fetched, failedAt, resp, ops>>
    /\ UNCHANGED lost
    /\ UNCHANGED status
    /\ UNCHANGED configFile
    /\ UNCHANGED device
    /\ UNCHANGED armed
    /\ UNCHANGED exited

\* The response callback with statusCode 200: response.pipe(file).
Response200(r) ==
    /\ ~crashed /\ ~exited /\ running = NoReq /\ dl[r].http = "pending"
    /\ dl' = [dl EXCEPT ![r].http = "body"]
    /\ UNCHANGED <<platform, dirs, files, body, pc, running, rootDir, seen, resetIdx,
                   rmFailed, idx, fetched, failedAt, resp, ops, crashed>>
    /\ UNCHANGED lost
    /\ UNCHANGED status
    /\ UNCHANGED configFile
    /\ UNCHANGED device
    /\ UNCHANGED armed
    /\ UNCHANGED exited

\* The rejection of a download: file.close(() => fs.unlink(...)) is
\* queued, reject() is called, and the handler resumes in its catch.
Rejected(r, err) ==
    /\ dl' = [dl EXCEPT ![r].http = "done", ![r].error = err, ![r].cleanup = "pending"]
    /\ failedAt' = [failedAt EXCEPT ![r] = dl[r].item]
    /\ pc' = [pc EXCEPT ![r] = IF @ = "zipAwait" THEN "zipCatch" ELSE "catch"]
    /\ running' = r

\* The response callback with statusCode !== 200.
ResponseNot200(r) ==
    /\ ~crashed /\ ~exited /\ running = NoReq /\ dl[r].http = "pending"
    /\ Rejected(r, "status")
    /\ UNCHANGED <<platform, dirs, files, body, rootDir, seen, resetIdx,
                   rmFailed, idx, fetched, resp, ops, crashed>>
    /\ UNCHANGED lost
    /\ UNCHANGED status
    /\ UNCHANGED configFile
    /\ UNCHANGED device
    /\ UNCHANGED armed
    /\ UNCHANGED exited

\* request.on('error'): the socket fails, before any response or while the
\* body is piped.
RequestError(r) ==
    /\ ~crashed /\ ~exited /\ running = NoReq /\ dl[r].http \in {"pending", "body"}
    /\ Rejected(r, "transport")
    /\ UNCHANGED <<platform, dirs, files, body, rootDir, seen, resetIdx,
                   rmFailed, idx, fetched, resp, ops, crashed>>
    /\ UNCHANGED lost
    /\ UNCHANGED status
    /\ UNCHANGED configFile
    /\ UNCHANGED device
    /\ UNCHANGED armed
    /\ UNCHANGED exited

\* The body has been piped: 'finish', file.close(resolve), and the handler
\* resumes after the await: /install-files with the next item, /install
\* with the statement after the download.
BodyEnd(r) ==
    /\ ~crashed /\ ~exited /\ running = NoReq /\ dl[r].http = "body" /\ dl[r].file = "open"
    /\ files' = IF dl[r].linked /\ dl[r].dest \in DOMAIN files
                THEN FilesWith(dl[r].dest,
                               [by |-> r, item |-> dl[r].item, complete |-> TRUE])
                ELSE files
    /\ dl' = [dl EXCEPT ![r].http = "done", ![r].file = "closed"]
    /\ idx' = IF pc[r] = "zipAwait" THEN idx ELSE [idx EXCEPT ![r] = @ + 1]
    /\ pc' = [pc EXCEPT ![r] = IF @ = "zipAwait" THEN StepAfter("zipDownload") ELSE "loop"]
    /\ running' = r
    /\ UNCHANGED <<platform, dirs, body, rootDir, seen, resetIdx, rmFailed,
                   fetched, failedAt, resp, ops, crashed>>
    /\ UNCHANGED lost
    /\ UNCHANGED status
    /\ UNCHANGED configFile
    /\ UNCHANGED device
    /\ UNCHANGED armed
    /\ UNCHANGED exited

\* The remote side closes the connection while the body is piped: the
\* response is aborted, which no handler of downloadFile listens to.  A
\* runtime that only emits 'aborted' leaves the promise pending for ever;
\* one that also emits 'error' on the response ends the process.
BodyAbort(r) ==
    /\ ~crashed /\ ~exited /\ running = NoReq /\ dl[r].http = "body"
    /\ dl' = [dl EXCEPT ![r].http = "aborted"]
    /\ crashed' \in BOOLEAN
    /\ UNCHANGED <<platform, dirs, files, body, pc, running, rootDir, seen, resetIdx,
                   rmFailed, idx, fetched, failedAt, resp, ops>>
    /\ UNCHANGED lost
    /\ UNCHANGED status
    /\ UNCHANGED configFile
    /\ UNCHANGED device
    /\ UNCHANGED armed
    /\ UNCHANGED exited

\* The callback of file.close after a rejection: fs.unlink(destPath, () => {}),
\* whose error is ignored.
Unlink(r) ==
    /\ ~crashed /\ ~exited /\ running = NoReq
    /\ dl[r].cleanup = "pending" /\ dl[r].file = "open"
    /\ \E removed \in BOOLEAN :
         IF removed /\ dl[r].dest \in DOMAIN files
         THEN /\ files' = [p \in DOMAIN files \ {dl[r].dest} |-> files[p]]
              /\ dl' = [q \in Requests |->
                          IF q = r
                          THEN [dl[q] EXCEPT !.cleanup = "done", !.file = "closed",
                                             !.linked = FALSE]
                          ELSE IF dl[q].dest = dl[r].dest
                               THEN [dl[q] EXCEPT !.linked = FALSE]
                               ELSE dl[q]]
         ELSE /\ dl' = [dl EXCEPT ![r].cleanup = "failed", ![r].file = "closed"]
              /\ UNCHANGED files
    /\ UNCHANGED <<platform, dirs, body, pc, running, rootDir, seen, resetIdx,
                   rmFailed, idx, fetched, failedAt, resp, ops, crashed>>
    /\ UNCHANGED lost
    /\ UNCHANGED status
    /\ UNCHANGED configFile
    /\ UNCHANGED device
    /\ UNCHANGED armed
    /\ UNCHANGED exited

\* ------------------------------------------------------------------ /install

TempFile(mcPath) == pathJoin(mcPath, <<"temp_modpack.zip">>)

\* What the archive holds, as paths under the base path.
ZipEntries(mcPath) ==
    {pathJoin(mcPath, <<"mods", "a">>), pathJoin(mcPath, <<"config", "new.cfg">>)}

\* The request arrives and its handler starts.
ReceiveInstall(r) ==
    /\ ~crashed /\ ~exited /\ running = NoReq /\ pc[r] = "zipNew"
    /\ running' = r
    /\ pc' = [pc EXCEPT ![r] = "zipEnsure"]
    /\ UNCHANGED <<platform, dirs, files, body, rootDir, seen, resetIdx, rmFailed,
                   idx, fetched, failedAt, dl, resp, ops, crashed>>
    /\ UNCHANGED lost
    /\ UNCHANGED status
    /\ UNCHANGED configFile
    /\ UNCHANGED device
    /\ UNCHANGED armed
    /\ UNCHANGED exited

\* const mcPath = getMinecraftPath(); ensureDir(mcPath);
InstallEnsure(r) ==
    /\ ~crashed /\ ~exited /\ running = r /\ pc[r] = "zipEnsure"
    /\ LET mcPath == getMinecraftPath(platform) IN
       IF mcPath = Unsupported
       THEN /\ pc' = [pc EXCEPT ![r] = "zipCatch"]
            /\ UNCHANGED <<dirs, rootDir, resetIdx, ops>>
       ELSE /\ rootDir' = [rootDir EXCEPT ![r] = mcPath]
            /\ ops' = [ops EXCEPT ![r] = @ \cup {"ensureDir"}]
            /\ \E created \in BOOLEAN :
                 IF mcPath \in dirs \/ created
                 THEN /\ dirs' = dirs \cup Ancestors(mcPath)
                      /\ pc' = [pc EXCEPT ![r] = InstallOrder[1]]
                      /\ resetIdx' = [resetIdx EXCEPT ![r] = 1]
                 ELSE /\ pc' = [pc EXCEPT ![r] = "zipCatch"]
                      /\ UNCHANGED <<dirs, resetIdx>>
    /\ UNCHANGED <<platform, files, body, running, seen, rmFailed,
                   idx, fetched, failedAt, dl, resp, crashed>>
    /\ UNCHANGED lost
    /\ UNCHANGED status
    /\ UNCHANGED configFile
    /\ UNCHANGED device
    /\ UNCHANGED armed
    /\ UNCHANGED exited

\* await downloadFile(url, tempFile), up to the await.  Without a url,
\* url.startsWith throws inside the executor after createWriteStream: the
\* promise rejects and the stream stays.
InstallDownload(r) ==
    /\ ~crashed /\ ~exited /\ running = r /\ pc[r] = "zipDownload"
    /\ ops' = [ops EXCEPT ![r] = @ \cup {"downloadFile"}]
    /\ fetched' = [fetched EXCEPT ![r] = Append(@, 1)]
    /\ dirs' = dirs \cup Ancestors(rootDir[r])
    /\ IF body[r].url = ""
       THEN /\ dl' = [dl EXCEPT ![r] =
                        [dest |-> TempFile(rootDir[r]), item |-> 1, file |-> "opening",
                         linked |-> FALSE, http |-> "done", error |-> "url",
                         cleanup |-> "no"]]
            /\ failedAt' = [failedAt EXCEPT ![r] = 1]
            /\ pc' = [pc EXCEPT ![r] = "zipCatch"]
            /\ UNCHANGED running
       ELSE /\ dl' = [dl EXCEPT ![r] =
                        [dest |-> TempFile(rootDir[r]), item |-> 1, file |-> "opening",
                         linked |-> FALSE, http |-> "pending", error |-> "",
                         cleanup |-> "no"]]
            /\ pc' = [pc EXCEPT ![r] = "zipAwait"]
            /\ running' = NoReq
            /\ UNCHANGED failedAt
    /\ UNCHANGED <<platform, files, body, rootDir, seen, resetIdx, rmFailed,
                   idx, resp, crashed>>
    /\ UNCHANGED lost
    /\ UNCHANGED status
    /\ UNCHANGED configFile
    /\ UNCHANGED device
    /\ UNCHANGED armed
    /\ UNCHANGED exited

\* if (mode === 'full') is false: nothing is removed.
InstallNoReset(r) ==
    /\ ~crashed /\ ~exited /\ running = r /\ pc[r] = "zipReset"
    /\ ~isFullMode(body[r].mode)
    /\ pc' = [pc EXCEPT ![r] = StepAfter("zipReset")]
    /\ UNCHANGED <<platform, dirs, files, body, running, rootDir, seen, resetIdx,
                   rmFailed, idx, fetched, failedAt, dl, resp, ops, crashed>>
    /\ UNCHANGED lost
    /\ UNCHANGED status
    /\ UNCHANGED configFile
    /\ UNCHANGED device
    /\ UNCHANGED armed
    /\ UNCHANGED exited

\* One round of ['mods','config','resourcepacks'].forEach under mcPath.
InstallResetFolder(r) ==
    /\ ~crashed /\ ~exited /\ running = r /\ pc[r] = "zipReset"
    /\ isFullMode(body[r].mode)
    /\ LET folder == ResetFolders[resetIdx[r]]
           target == pathJoin(rootDir[r], <<folder>>)
       IN  IF target \in dirs
           THEN /\ ops' = [ops EXCEPT ![r] = @ \cup {"existsSync", "rmSync"}]
                /\ \E removed \in BOOLEAN :
                     IF removed
                     THEN /\ dirs' = DirsAfterRm(target)
                          /\ files' = FilesAfterRm(target)
                          /\ dl' = DownloadsAfterRm(target)
                          /\ lost' = LostAfterRm(r, target)
                          /\ UNCHANGED rmFailed
                     ELSE /\ rmFailed' = [rmFailed EXCEPT ![r] = @ \cup {folder}]
                          /\ UNCHANGED <<dirs, files, dl, lost>>
           ELSE /\ ops' = [ops EXCEPT ![r] = @ \cup {"existsSync"}]
                /\ UNCHANGED <<dirs, files, dl, rmFailed, lost>>
    /\ IF resetIdx[r] = Len(ResetFolders)
       THEN /\ pc' = [pc EXCEPT ![r] = StepAfter("zipReset")]
            /\ UNCHANGED resetIdx
       ELSE /\ resetIdx' = [resetIdx EXCEPT ![r] = @ + 1]
            /\ UNCHANGED pc
    /\ UNCHANGED <<platform, body, running, rootDir, seen, idx, fetched, failedAt,
                   resp, crashed>>
    /\ UNCHANGED status
    /\ UNCHANGED configFile
    /\ UNCHANGED device
    /\ UNCHANGED armed
    /\ UNCHANGED exited

\* require('adm-zip'); new AdmZip(tempFile); zip.extractAllTo(mcPath, true).
\* It throws when the module is not installed or the file is not an archive.
InstallExtract(r) ==
    /\ ~crashed /\ ~exited /\ running = r /\ pc[r] = "zipExtract"
    /\ ops' = [ops EXCEPT ![r] = @ \cup {"extractAllTo"}]
    /\ LET tempFile == TempFile(rootDir[r])
           entries == ZipEntries(rootDir[r])
       IN  \E ok \in BOOLEAN :
             IF ok /\ tempFile \in DOMAIN files /\ files[tempFile].complete
             THEN /\ dirs' = dirs \cup UNION {Ancestors(pathDirname(e)) : e \in entries}
                  /\ files' = [p \in DOMAIN files \cup entries |->
                                  IF p \in entries
                                  THEN [by |-> r, item |-> 1, complete |-> TRUE]
                                  ELSE files[p]]
                  /\ pc' = [pc EXCEPT ![r] = StepAfter("zipExtract")]
             ELSE /\ pc' = [pc EXCEPT ![r] = "zipCatch"]
                  /\ UNCHANGED <<dirs, files>>
    /\ UNCHANGED <<platform, body, running, rootDir, seen, resetIdx, rmFailed,
                   idx, fetched, failedAt, dl, resp, crashed>>
    /\ UNCHANGED lost
    /\ UNCHANGED status
    /\ UNCHANGED configFile
    /\ UNCHANGED device
    /\ UNCHANGED armed
    /\ UNCHANGED exited

\* fs.unlinkSync(tempFile), which throws when it fails.
InstallUnlinkTemp(r) ==
    /\ ~crashed /\ ~exited /\ running = r /\ pc[r] = "zipUnlink"
    /\ ops' = [ops EXCEPT ![r] = @ \cup {"unlinkSync"}]
    /\ LET tempFile == TempFile(rootDir[r]) IN
       \E removed \in BOOLEAN :
         IF removed /\ tempFile \in DOMAIN files
         THEN /\ files' = [p \in DOMAIN files \ {tempFile} |-> files[p]]
              /\ pc' = [pc EXCEPT ![r] = StepAfter("zipUnlink")]
         ELSE /\ pc' = [pc EXCEPT ![r] = "zipCatch"]
              /\ UNCHANGED files
    /\ UNCHANGED <<platform, dirs, body, running, rootDir, seen, resetIdx, rmFailed,
                   idx, fetched, failedAt, dl, resp, crashed>>
    /\ UNCHANGED lost
    /\ UNCHANGED status
    /\ UNCHANGED configFile
    /\ UNCHANGED device
    /\ UNCHANGED armed
    /\ UNCHANGED exited

\* res.json({ success: true }), then
\* if (autoTerminate) setTimeout(() => process.exit(0), 1000).
InstallRespond(r) ==
    /\ ~crashed /\ ~exited /\ running = r /\ pc[r] = "zipRespond"
    /\ resp' = [resp EXCEPT ![r] = 200]
    /\ pc' = [pc EXCEPT ![r] = "done"]
    /\ running' = NoReq
    /\ UNCHANGED <<platform, dirs, files, body, rootDir, seen, resetIdx, rmFailed,
                   idx, fetched, failedAt, dl, ops, crashed>>
    /\ UNCHANGED lost
    /\ UNCHANGED status
    /\ UNCHANGED configFile
    /\ UNCHANGED device
    /\ armed' = [armed EXCEPT ![r] = body[r].autoTerminate]
    /\ UNCHANGED exited

\* catch (err) { res.status(500).json(...) }
InstallCatch(r) ==
    /\ ~crashed /\ ~exited /\ running = r /\ pc[r] = "zipCatch"
    /\ resp' = [resp EXCEPT ![r] = 500]
    /\ pc' = [pc EXCEPT ![r] = "done"]
    /\ running' = NoReq
    /\ UNCHANGED <<platform, dirs, files, body, rootDir, seen, resetIdx, rmFailed,
                   idx, fetched, failedAt, dl, ops, crashed>>
    /\ UNCHANGED lost
    /\ UNCHANGED status
    /\ UNCHANGED configFile
    /\ UNCHANGED device
    /\ UNCHANGED armed
    /\ UNCHANGED exited

\* ------------------------------------------------------------------ process exit

\* The timer of an autoTerminate request fires: process.exit(0).
Exit ==
    /\ ~crashed /\ ~exited /\ running = NoReq
    /\ \E r \in Requests : armed[r]
    /\ exited' = TRUE
    /\ UNCHANGED <<platform, dirs, files, body, pc, running, rootDir, seen, resetIdx,
                   rmFailed, idx, fetched, failedAt, dl, resp, ops, crashed>>
    /\ UNCHANGED lost
    /\ UNCHANGED status
    /\ UNCHANGED configFile
    /\ UNCHANGED device
    /\ UNCHANGED armed

\* ------------------------------------------------------------------ specification

Next ==
    \/ Status
    \/ Exit
    \/ \E r \in Requests :
        \/ Receive(r)
        \/ Validate(r)
        \/ ResolveRoot(r)
        \/ EnsureRoot(r)
        \/ NoReset(r)
        \/ ResetFolder(r)
        \/ SkipItem(r)
        \/ StartDownload(r)
        \/ RespondSuccess(r)
        \/ Catch(r)
        \/ FileOpen(r)
        \/ Response200(r)
        \/ ResponseNot200(r)
        \/ RequestError(r)
        \/ BodyEnd(r)
        \/ BodyAbort(r)
        \/ Unlink(r)
        \/ ReceiveInstall(r)
        \/ InstallEnsure(r)
        \/ InstallDownload(r)
        \/ InstallNoReset(r)
        \/ InstallResetFolder(r)
        \/ InstallExtract(r)
        \/ InstallUnlinkTemp(r)
        \/ InstallRespond(r)
        \/ InstallCatch(r)

Spec == Init /\ [][Next]_vars

\* ------------------------------------------------------------------ device identity, runs

requestVars ==
    <<platform, dirs, files, body, pc, running, rootDir, seen, resetIdx, rmFailed,
      idx, fetched, failedAt, dl, resp, ops, lost, crashed, status, armed, exited>>

\* A process starts: const DEVICE_TOKEN = getOrCreateDeviceToken().  When
\* the config directory is missing and cannot be made, getConfigPath throws
\* and the process ends without a token.
StartProcess ==
    /\ device.run < MaxRuns
    /\ \E dirMade \in BOOLEAN, written \in BOOLEAN :
          LET got == getOrCreateDeviceToken(configFile, device.issued + 1, written)
              ended == configFile = NoFile /\ ~dirMade
          IN  /\ configFile' = IF ended THEN configFile ELSE got.file
              /\ device' =
                    [run |-> device.run + 1,
                     token |-> IF ended THEN 0 ELSE got.token,
                     generated |-> ~ended /\ got.generated,
                     wrote |-> ~ended /\ got.wrote,
                     before |-> configFile,
                     issued |-> IF ~ended /\ got.generated THEN device.issued + 1
                                ELSE device.issued,
                     kept |-> IF ~ended /\ got.wrote THEN got.token ELSE device.kept,
                     keptBefore |-> device.kept]
    /\ UNCHANGED requestVars

\* Between two runs something else deletes, damages or replaces the file.
Disturb ==
    /\ \E f \in ConfigFiles \ {configFile} : configFile' = f
    /\ device' = [device EXCEPT !.kept = 0]
    /\ UNCHANGED requestVars

NextToken == StartProcess \/ Disturb

SpecToken == InitToken /\ [][NextToken]_vars

\* ------------------------------------------------------------------ properties

SubDirs(root) == {pathJoin(root, <<f>>) : f \in {"mods", "config", "resourcepacks"}}

\* The requests posted to /install-files.
FileRequests == {r \in Requests : body[r].route = "/install-files"}

\* C1: a request whose mode is not 'full' never deletes a directory: every
\* step that removes a directory (mods, config and resourcepacks under any
\* root among them) is a round of the reset loop of a request, to either
\* endpoint, whose mode is 'full'.
C1_PatchNeverDeletes ==
    [][\A d \in dirs :
          d \notin dirs' =>
              \E r \in Requests :
                  /\ running = r /\ body[r].mode = "full"
                  /\ pc[r] = (IF r \in FileRequests THEN "reset" ELSE "zipReset")]_vars

\* A request that is not in full mode has fetched an item and responded,
\* and the three sub folders of its root are there.
C1_Witness ==
    \E r \in Requests :
        /\ body[r].mode # "full" /\ resp[r] \in {200, 500}
        /\ fetched[r] # <<>>
        /\ SubDirs(rootDir[r]) \subseteq dirs
        /\ \E p \in DOMAIN files : files[p].by = "old" /\ pathDirname(p) \in SubDirs(rootDir[r])

\* The point after the reset step and before the first download of r.
AfterReset(r) ==
    running = r /\ pc[r] = "loop" /\ fetched[r] = <<>> /\ body[r].mode = "full"

\* C2 as stated: in full mode, after the reset step and before the first
\* download, none of mods, config and resourcepacks exists under the root.
C2_AllAbsentAfterReset ==
    \A r \in FileRequests : AfterReset(r) => SubDirs(rootDir[r]) \cap dirs = {}

\* C2 as amended: in full mode, after the reset step and before the first
\* download, each of mods, config and resourcepacks is absent under the
\* root unless its removal threw, which the reset swallows.
C2_AbsentUnlessRemovalFailed ==
    \A r \in FileRequests :
        AfterReset(r) =>
            \A f \in {"mods", "config", "resourcepacks"} :
                pathJoin(rootDir[r], <<f>>) \in dirs => f \in rmFailed[r]

\* The reset of a full request has removed every sub folder it found.
C2_Witness ==
    \E r \in FileRequests :
        /\ AfterReset(r) /\ "rmSync" \in ops[r] /\ rmFailed[r] = {}
        /\ SubDirs(rootDir[r]) \cap dirs = {}

\* items is absent, not a list, or an empty list.
NoItems(r) == ~body[r].items.isArray \/ body[r].items.list = <<>>

\* C3: a request whose items is absent, not a list or empty gets a 400 and
\* nothing else: no instance discovery, no directory check or creation, no
\* reset, no download, and the filesystem is as it was, whatever the mode
\* and the target selector.
C3_RejectedWithoutSideEffects ==
    \A r \in FileRequests :
        (NoItems(r) /\ pc[r] \notin {"new", "absent"}) =>
            /\ pc[r] \in {"validate", "done"}
            /\ resp[r] = (IF pc[r] = "done" THEN 400 ELSE 0)
            /\ ops[r] = {} /\ dl[r] = NoDownload /\ fetched[r] = <<>>
            /\ rootDir[r] = <<>>
            /\ (\A q \in Requests \ {r} : pc[q] = "absent") =>
                   \E populated \in BOOLEAN : InitFs(populated)

\* A full-mode request without items was answered 400 and the game
\* directory still holds its sub folders.
C3_Witness ==
    \E r \in FileRequests :
        /\ NoItems(r) /\ body[r].mode = "full" /\ resp[r] = 400
        /\ SubDirs(getMinecraftPath(platform)) \subseteq dirs

\* C4: every file a request writes lies directly inside mods, config or
\* resourcepacks of its resolved root, whatever the item's fileName.
C4_WritesStayInSubFolder ==
    \A p \in DOMAIN files :
        files[p].by \in FileRequests => pathDirname(p) \in SubDirs(rootDir[files[p].by])

\* C5: when a download is rejected for a status other than 200, no file
\* exists at its destination at the moment the caller sees the failure.
C5_NoFileWhenFailureReported ==
    \A r \in FileRequests :
        (pc[r] = "catch" /\ dl[r].error = "status") => dl[r].dest \notin DOMAIN files

\* C6: the first item whose fetch fails ends the batch: no later item is
\* handed to downloadFile or written, the handler goes to its catch, and
\* the response is a failure, never a success.
C6_FirstFailureAborts ==
    \A r \in FileRequests :
        failedAt[r] # 0 =>
            /\ pc[r] \in {"catch", "done"}
            /\ resp[r] = (IF pc[r] = "done" THEN 500 ELSE 0)
            /\ fetched[r] # <<>> /\ fetched[r][Len(fetched[r])] = failedAt[r]
            /\ idx[r] = failedAt[r]
            /\ \A i \in 1..Len(fetched[r]) : fetched[r][i] <= failedAt[r]
            /\ \A p \in DOMAIN files : files[p].by = r => files[p].item <= failedAt[r]

\* The first of two items failed, the request was answered 500, and the
\* second item was never fetched.
C6_Witness ==
    \E r \in FileRequests :
        /\ failedAt[r] = 1 /\ resp[r] = 500
        /\ Len(body[r].items.list) = 2
        /\ ~itemSkipped(body[r].items.list[2])
        /\ fetched[r] = <<1>>

\* The instances of list L whose id is id.
WithId(L, id) == {i \in 1..Len(L) : L[i].id = id}

\* C7: root resolution: an explicit gameDir is the root and the instance
\* locator is not called; otherwise the root is the path of an instance
\* whose id is instanceId, else of the instance 'default', else of the
\* first instance, else the platform's base path (whose computation fails
\* the request on an unrecognised platform).
C7_RootResolution ==
    \A r \in FileRequests :
        (pc[r] \notin {"new", "absent", "validate", "resolve"} /\ ~NoItems(r)) =>
            LET L == seen[r]
                base == getMinecraftPath(platform)
            IN  IF body[r].gameDir # <<>>
                THEN rootDir[r] = body[r].gameDir /\ "detectInstances" \notin ops[r]
                ELSE /\ "detectInstances" \in ops[r]
                     /\ IF WithId(L, body[r].instanceId) # {}
                        THEN \E i \in WithId(L, body[r].instanceId) : rootDir[r] = L[i].path
                        ELSE IF WithId(L, DefaultId) # {}
                        THEN \E i \in WithId(L, DefaultId) : rootDir[r] = L[i].path
                        ELSE IF L # <<>> THEN rootDir[r] = L[1].path
                        ELSE IF platform \in {"win32", "darwin", "linux"}
                        THEN rootDir[r] = base
                        ELSE rootDir[r] = <<>> /\ pc[r] \in {"catch", "done"}
                                               /\ resp[r] \in {0, 500}
                     /\ (body[r].instanceId = <<>> /\ platform \in {"win32", "darwin", "linux"})
                            => rootDir[r] = base

\* A request naming a version instance got that version folder as root.
C7_Witness ==
    \E r \in FileRequests :
        /\ body[r].gameDir = <<>> /\ body[r].instanceId = safeId("v.1")
        /\ Len(seen[r]) = 3
        /\ rootDir[r] = pathJoin(getMinecraftPath(platform), <<"versions", "v.1">>)
        /\ resp[r] = 200

\* The destination the claim gives an item under root.
ClaimedDest(root, item) ==
    NormalizeFrom(<<>>,
        root \o <<CASE item.type = "resourcepack" -> "resourcepacks"
                    [] item.type = "config" -> "config"
                    [] OTHER -> "mods">> \o item.fileName)

\* C8: the destination of every fetched item is <root>/resourcepacks/<fileName>
\* for type 'resourcepack', <root>/config/<fileName> for 'config', and
\* <root>/mods/<fileName> for any other or a missing type; files are
\* written nowhere else.
C8_DestinationByType ==
    /\ \A r \in FileRequests :
          dl[r].file # "none" =>
              dl[r].dest = ClaimedDest(rootDir[r], body[r].items.list[dl[r].item])
    /\ \A p \in DOMAIN files :
          files[p].by \in FileRequests =>
              p = ClaimedDest(rootDir[files[p].by],
                              body[files[p].by].items.list[files[p].item])

\* A config item and an item of an unknown type were both placed.
C8_Witness ==
    \E r \in FileRequests :
        /\ resp[r] = 200
        /\ \E p \in DOMAIN files :
              /\ files[p].by = r /\ files[p].complete
              /\ body[r].items.list[files[p].item].type = "config"
              /\ p = pathJoin(rootDir[r], <<"config", "a">>)
        /\ \E p \in DOMAIN files :
              /\ files[p].by = r /\ files[p].complete
              /\ body[r].items.list[files[p].item].type = "shader"
              /\ p = pathJoin(rootDir[r], <<"mods", "a">>)

\* C9 as stated: when an item fetch of a full-mode request fails, the
\* request reports failure and, after the response, the three sub folders
\* of the root hold at most the files placed by the items fetched before
\* the failure.
C9_OnlyEarlierItemsRemain ==
    \A r \in FileRequests :
        (body[r].mode = "full" /\ failedAt[r] # 0 /\ pc[r] = "done") =>
            /\ resp[r] = 500
            /\ \A p \in DOMAIN files :
                  pathDirname(p) \in SubDirs(rootDir[r]) =>
                      files[p].by = r /\ files[p].item < failedAt[r]

\* C9 as amended: when an item fetch of a full-mode request fails, the
\* request reports failure and nothing the reset removed is restored:
\* after the response, a file in one of the three sub folders of the root
\* is a file written for an item (of this request: the failed item or an
\* earlier one) or a file of a sub folder whose removal failed.
C9_NoRollback ==
    \A r \in FileRequests :
        (body[r].mode = "full" /\ failedAt[r] # 0 /\ pc[r] = "done") =>
            /\ resp[r] = 500
            /\ \A f \in {"mods", "config", "resourcepacks"} :
                \A p \in DOMAIN files :
                  pathDirname(p) = pathJoin(rootDir[r], <<f>>) =>
                      /\ files[p].by = "old" => f \in rmFailed[r]
                      /\ files[p].by = r => files[p].item <= failedAt[r]

\* The reset of a full request emptied the populated game directory, the
\* first fetch failed, the answer was 500, and mods is still gone.
C9_Witness ==
    \E r \in FileRequests :
        /\ body[r].mode = "full" /\ failedAt[r] = 1 /\ resp[r] = 500
        /\ "rmSync" \in ops[r] /\ rmFailed[r] = {}
        /\ dl[r].cleanup = "done"
        /\ \A p \in DOMAIN files : pathDirname(p) \notin SubDirs(rootDir[r])

\* C10: requests on one root do not exclude each other: while a request is
\* suspended in a download, the handler of another request can start, and
\* it runs its reset at once.
C10_NoMutualExclusion ==
    \A r \in Requests :
        (pc[r] = "new" /\ running = NoReq /\ ~crashed
            /\ \E q \in Requests : pc[q] = "await")
          => ENABLED Receive(r)

\* Both requests succeeded on the same root, yet the full-mode reset of one
\* removed a file the other had placed before.
C10_Witness ==
    \E r \in Requests, q \in Requests :
        /\ r # q /\ rootDir[r] = rootDir[q]
        /\ resp[r] = 200 /\ resp[q] = 200
        /\ body[r].mode = "full"
        /\ lost[q] # {}
        /\ \E k \in lost[q] :
              destPathOf(rootDir[q], body[q].items.list[k]) \notin DOMAIN files

\* ------------------------------------------------------------------ C11

\* The folder a versioned instance was found in: the last segment of its path.
FolderOf(inst) == inst.path[Len(inst.path)]

VersionsSeen == {inst \in UNION {{seen[r][i] : i \in 1..Len(seen[r])} : r \in Requests} :
                    inst.kind = "version"}

\* The folder name from position k on, with one '_' where a run of
\* characters outside [A-Za-z0-9_-] begins and nothing for the rest of the run.
RECURSIVE RunsReplaced(_, _)
RunsReplaced(name, k) ==
    IF k > Len(name) THEN <<>>
    ELSE (IF name[k] \in {"v", "1", "_", "-"} THEN <<name[k]>>
          ELSE IF k > 1 /\ name[k - 1] \notin {"v", "1", "_", "-"} THEN <<>>
          ELSE <<"_">>) \o RunsReplaced(name, k + 1)

\* C11 (as stated): the id of a versioned instance is 'ver_' followed by the
\* folder name with each character outside [A-Za-z0-9_-] replaced by one '_',
\* so the sanitized part is as long as the folder name.
C11_OneUnderscorePerChar ==
    \A inst \in VersionsSeen :
        LET name == NameChars[FolderOf(inst)] IN
        /\ Len(inst.id) = Len(VerPrefix) + Len(name)
        /\ inst.id = <<"v", "e", "r", "_">> \o
                [k \in 1..Len(name) |->
                    IF name[k] \in {"v", "1", "_", "-"} THEN name[k] ELSE "_"]

\* C11 (amended): the id of a versioned instance is 'ver_' followed by the
\* folder name with each maximal run of characters outside [A-Za-z0-9_-]
\* replaced by one '_'; the sanitized part is never longer than the name.
C11_OneUnderscorePerRun ==
    \A inst \in VersionsSeen :
        LET name == NameChars[FolderOf(inst)] IN
        /\ inst.id = <<"v", "e", "r", "_">> \o RunsReplaced(name, 1)
        /\ Len(inst.id) <= Len(VerPrefix) + Len(name)

\* A request was given the instance of folder 'v..1' under the id ver_v_1.
C11_Witness ==
    \E inst \in VersionsSeen :
        /\ FolderOf(inst) = "v..1"
        /\ inst.id = <<"v", "e", "r", "_", "v", "_", "1">>

\* ------------------------------------------------------------------ C12

\* The request has left root resolution.
PastResolve(r) == pc[r] \in {"ensureRoot", "reset", "loop", "await", "catch", "done"}

\* C12: on a platform other than win32, darwin and linux, the status query
\* is answered with an empty instance list and an empty base path, and an
\* /install-files request without gameDir ends in the failure response
\* without creating a directory, resetting or downloading.
C12_UnsupportedPlatform ==
    platform \notin {"win32", "darwin", "linux"} =>
        /\ status.state = "new" /\ running = NoReq /\ ~crashed /\ ~exited
              => ENABLED Status
        /\ status.state = "done" => status.instances = <<>> /\ status.mcPath = <<>>
        /\ \A r \in FileRequests :
              (/\ body[r].gameDir = <<>>
               /\ body[r].items.isArray /\ Len(body[r].items.list) > 0
               /\ PastResolve(r)) =>
                  /\ pc[r] \in {"catch", "done"}
                  /\ seen[r] = <<>>
                  /\ pc[r] = "done" => resp[r] = 500
                  /\ pc[r] = "catch" => resp[r] = 0
                  /\ dirs = {Home} /\ DOMAIN files = {}
                  /\ ops[r] \subseteq {"detectInstances"}
                  /\ fetched[r] = <<>> /\ dl[r] = NoDownload

\* On sunos the status query was answered and a request without gameDir
\* got its failure response.
C12_Witness ==
    /\ platform = "sunos"
    /\ status.state = "done" /\ status.instances = <<>>
    /\ \E r \in Requests :
          /\ body[r].gameDir = <<>> /\ body[r].instanceId # <<>>
          /\ resp[r] = 500 /\ "detectInstances" \in ops[r]

\* ------------------------------------------------------------------ C13

\* The positions of the items that are objects with a url and a fileName.
Usable(r) ==
    {k \in 1..Len(body[r].items.list) :
        LET item == body[r].items.list[k] IN
        ~item.isNull /\ item.url # "" /\ item.fileName # <<>>}

FetchedSet(r) == {fetched[r][i] : i \in 1..Len(fetched[r])}

\* C13: an item that is null or has no url or no fileName is never handed
\* to downloadFile, never written and never the cause of a failure; the
\* usable items before the loop position were all fetched, in order; a
\* request whose items are all skipped creates no sub folder and is
\* answered with success.
C13_SkippedItems ==
    \A r \in FileRequests :
        /\ FetchedSet(r) \subseteq Usable(r)
        /\ \A i, j \in 1..Len(fetched[r]) : i < j => fetched[r][i] < fetched[r][j]
        /\ \A p \in DOMAIN files : files[p].by = r => files[p].item \in Usable(r)
        /\ dl[r].item \in Usable(r) \cup {0}
        /\ failedAt[r] \in Usable(r) \cup {0}
        /\ \A k \in Usable(r) : k < idx[r] => k \in FetchedSet(r)
        /\ (Usable(r) = {} /\ idx[r] >= 1) =>
              /\ pc[r] \in {"loop", "done"}
              /\ pc[r] = "done" => resp[r] = 200
        /\ (Usable(r) = {} /\ \A q \in Requests \ {r} : pc[q] = "absent") =>
              dirs \subseteq {Home} \cup PopulatedDirs(getMinecraftPath(platform))
                                \cup Ancestors(rootDir[r])

\* A request whose first item is unusable fetched its second item and
\* reported success.
C13_Witness ==
    \E r \in FileRequests :
        /\ Len(body[r].items.list) = 2
        /\ body[r].items.list[1].fileName = <<>> /\ body[r].items.list[1].url # ""
        /\ fetched[r] = <<2>> /\ resp[r] = 200

\* A request whose items are all unusable reported success.
C13_WitnessAllSkipped ==
    \E r \in FileRequests :
        /\ Len(body[r].items.list) = 2 /\ Usable(r) = {}
        /\ resp[r] = 200 /\ files = [p \in {} |-> OldContent]

\* ------------------------------------------------------------------ C14

\* C14 (as stated): a connection that fails while the body is piped makes
\* downloadFile settle with an error, so the request that awaits the
\* download is not left waiting for it.
C14_FailureSettles ==
    \A r \in Requests : dl[r].http = "aborted" => pc[r] # "await"

\* ------------------------------------------------------------------ C15

\* The requests posted to the legacy /install.
ZipRequests == {r \in Requests : body[r].route = "/install"}

\* The archive of r has been fetched completely and without error.
ArchiveFetched(r) ==
    /\ dl[r].http = "done" /\ dl[r].error = "" /\ dl[r].file = "closed"
    /\ failedAt[r] = 0

\* C15: /install runs download, reset (mode 'full' only), extract, delete
\* of the temporary archive, response, in this order: no reset round and no
\* extraction before the archive was fetched, so until then, and for ever
\* after a failed download, mods, config and resourcepacks hold what they
\* held; no extraction before the reset is over; no delete before the
\* extraction; and once success is answered the temporary archive is gone.
C15_InstallOrder ==
    \A r \in ZipRequests :
        LET base == getMinecraftPath(platform) IN
        /\ ops[r] \cap {"existsSync", "rmSync", "extractAllTo", "unlinkSync"} # {}
              => ArchiveFetched(r)
        /\ "rmSync" \in ops[r] => body[r].mode = "full"
        /\ "extractAllTo" \in ops[r] =>
              /\ pc[r] # "zipReset"
              /\ body[r].mode = "full" =>
                    /\ resetIdx[r] = 3
                    /\ \A f \in {"mods", "config", "resourcepacks"} :
                          \/ f \in rmFailed[r]
                          \/ \A p \in DOMAIN files :
                                pathDirname(p) = pathJoin(base, <<f>>) => files[p].by = r
        /\ "unlinkSync" \in ops[r] => "extractAllTo" \in ops[r] /\ pc[r] # "zipExtract"
        /\ ~ArchiveFetched(r) =>
              /\ \A d \in SubDirs(base) :
                    pathJoin(base, <<"versions">>) \in dirs => d \in dirs
              /\ \A p \in DOMAIN files : pathDirname(p) \in SubDirs(base) =>
                    files[p] = OldContent
              /\ \A p \in PopulatedFiles(base) :
                    pathJoin(base, <<"versions">>) \in dirs =>
                        p \in DOMAIN files /\ files[p] = OldContent
        /\ resp[r] = 200 =>
              /\ {"downloadFile", "extractAllTo", "unlinkSync"} \subseteq ops[r]
              /\ pathJoin(base, <<"temp_modpack.zip">>) \notin DOMAIN files
              /\ \A e \in ZipEntries(base) : e \in DOMAIN files /\ files[e].by = r

\* A full-mode /install whose download failed was answered 500 and the
\* populated game directory still holds its old files.
C15_Witness ==
    \E r \in ZipRequests :
        /\ body[r].mode = "full" /\ resp[r] = 500 /\ dl[r].error = "status"
        /\ \A p \in PopulatedFiles(getMinecraftPath(platform)) :
              p \in DOMAIN files /\ files[p] = OldContent

\* A full-mode /install succeeded: the old files are gone, the archive's
\* entries are there and the temporary archive is not.
C15_WitnessSuccess ==
    \E r \in ZipRequests :
        /\ body[r].mode = "full" /\ resp[r] = 200 /\ "rmSync" \in ops[r]
        /\ rmFailed[r] = {}
        /\ pathJoin(rootDir[r], <<"mods", "old.jar">>) \notin DOMAIN files
        /\ pathJoin(rootDir[r], <<"config", "new.cfg">>) \in DOMAIN files
        /\ TempFile(rootDir[r]) \notin DOMAIN files

\* ------------------------------------------------------------------ C16

\* C16: when a run has persisted a token and the file was not touched
\* since, the file holds that token, and a later run returns exactly it
\* without generating one and without writing; a run generates a token only
\* when, at its start, the file was missing, unreadable, not JSON or
\* without a token.
C16_TokenRoundTrip ==
    /\ device.kept # 0 => configFile = [kind |-> "json", token |-> device.kept]
    /\ device.keptBefore # 0 =>
          /\ device.token = device.keptBefore
          /\ ~device.generated /\ ~device.wrote
          /\ device.before = [kind |-> "json", token |-> device.keptBefore]
    /\ device.generated =>
          \/ device.before.kind \in {"missing", "unreadable", "corrupt"}
          \/ device.before.kind = "json" /\ device.before.token = 0
    /\ device.wrote => device.generated

\* The first run made token 1 and stored it; the second and the third run
\* read it back.
C16_Witness ==
    /\ device.run = 3 /\ device.issued = 1
    /\ device.keptBefore = 1 /\ device.token = 1
    /\ configFile = JsonFile(1)

\* ------------------------------------------------------------------ C17

\* The download r started last has resolved.
LastResolved(r) ==
    /\ dl[r].http = "done" /\ dl[r].error = "" /\ dl[r].file = "closed"
    /\ failedAt[r] = 0
    /\ dl[r].item = fetched[r][Len(fetched[r])]

\* The usable items of r whose destination is p.
ItemsFor(r, p) ==
    {k \in Usable(r) : ClaimedDest(rootDir[r], body[r].items.list[k]) = p}

\* C17: the items of a request are handed to downloadFile in request
\* order, and each one only when no download of the request is in flight
\* and the one before it has resolved; so after a success that nothing else
\* interfered with, each destination holds the complete file of the last
\* item that names it.
C17_Sequential ==
    /\ [][\A r \in FileRequests :
            fetched'[r] # fetched[r] =>
                /\ \E k \in 1..Len(body[r].items.list) :
                      /\ fetched'[r] = Append(fetched[r], k)
                      /\ \A i \in 1..Len(fetched[r]) : fetched[r][i] < k
                /\ fetched[r] # <<>> => LastResolved(r)]_vars
    /\ [](\A r \in FileRequests :
            (resp[r] = 200 /\ \A q \in Requests \ {r} : pc[q] = "absent") =>
                \A k \in Usable(r) :
                    LET p == ClaimedDest(rootDir[r], body[r].items.list[k]) IN
                    /\ p \in DOMAIN files
                    /\ files[p].by = r /\ files[p].complete
                    /\ \A j \in ItemsFor(r, p) : j <= files[p].item)

\* Two items of different types went to the same destination, one after
\* the other, and the file there is the second item's.
C17_Witness ==
    \E r \in FileRequests :
        /\ resp[r] = 200 /\ fetched[r] = <<1, 2>>
        /\ body[r].items.list[1].type # body[r].items.list[2].type
        /\ LET p == ClaimedDest(rootDir[r], body[r].items.list[1]) IN
           /\ p = ClaimedDest(rootDir[r], body[r].items.list[2])
           /\ p \in DOMAIN files /\ files[p].item = 2 /\ files[p].complete

\* ------------------------------------------------------------------ C18

\* The destinations of the usable items of r.
Destinations(r) ==
    {ClaimedDest(rootDir[r], body[r].items.list[k]) : k \in Usable(r)}

\* C18: a patch request leaves every file that was there before it and is
\* not a destination of one of its usable items as it was, at every moment
\* of the request and after its response, success or failure; what it adds
\* are files at those destinations and the directories above them.
C18_PatchFrame ==
    \A r \in FileRequests :
        (/\ body[r].mode = "patch"
         /\ pc[r] \notin {"absent", "new", "validate", "resolve"}
         /\ \A q \in Requests \ {r} : pc[q] = "absent") =>
            LET base == getMinecraftPath(platform)
                populated == pathJoin(base, <<"versions">>) \in dirs
                before == IF populated THEN PopulatedFiles(base) ELSE {}
            IN  /\ \A p \in before \ Destinations(r) :
                      p \in DOMAIN files /\ files[p] = OldContent
                /\ \A p \in DOMAIN files \ before : p \in Destinations(r)
                /\ \A p \in DOMAIN files : files[p].by = r => p \in Destinations(r)
                /\ populated => PopulatedDirs(base) \subseteq dirs
                /\ \A d \in dirs :
                      \/ d = Home \/ (populated /\ d \in PopulatedDirs(base))
                      \/ d \in Ancestors(rootDir[r])
                      \/ \E p \in Destinations(r) : d \in Ancestors(pathDirname(p))

\* A patch request placed its item next to the old files of mods, on a
\* populated game directory, and a second one failed: the old files are
\* all there.
C18_Witness ==
    \E r \in FileRequests :
        /\ body[r].mode = "patch" /\ resp[r] = 500 /\ fetched[r] = <<1, 2>>
        /\ rootDir[r] = getMinecraftPath(platform)
        /\ pathJoin(rootDir[r], <<"config", "a">>) \in DOMAIN files
        /\ pathJoin(rootDir[r], <<"mods", "old.jar">>) \in DOMAIN files
        /\ pathJoin(rootDir[r], <<"config", "old.cfg">>) \in DOMAIN files
        /\ files[pathJoin(rootDir[r], <<"mods", "a">>)] = OldContent

\* ------------------------------------------------------------------ C19

\* ensureDir(rootDir) was called by r and the root is not there: its
\* creation failed.
RootNotCreated(r) ==
    /\ "ensureDir" \in ops[r] /\ rootDir[r] \notin dirs
    /\ \A q \in Requests \ {r} : pc[q] = "absent"

\* C19: a removal that fails in the reset of a full request does not end
\* the reset round it happens in: the next of mods, config, resourcepacks
\* is tried, and after the last one the item loop starts; no failure is
\* reported unless an item fetch fails.  A root that cannot be created
\* sends the request to its failure response with no reset round run, no
\* download started and nothing changed on disk.
C19_ResetFailureSwallowed ==
    /\ [][\A r \in FileRequests :
            rmFailed'[r] # rmFailed[r] =>
                /\ body[r].mode = "full" /\ resp'[r] = 0 /\ running' = r
                /\ IF resetIdx[r] < 3
                   THEN pc'[r] = "reset" /\ resetIdx'[r] = resetIdx[r] + 1
                   ELSE pc'[r] = "loop" /\ idx'[r] = 1]_vars
    /\ [](\A r \in FileRequests :
            /\ (rmFailed[r] # {} /\ failedAt[r] = 0) =>
                  /\ pc[r] \in {"reset", "loop", "await", "done"}
                  /\ resp[r] \in {0, 200}
            /\ RootNotCreated(r) =>
                  /\ pc[r] \in {"catch", "done"}
                  /\ resp[r] = (IF pc[r] = "done" THEN 500 ELSE 0)
                  /\ ops[r] \cap {"existsSync", "rmSync", "downloadFile"} = {}
                  /\ fetched[r] = <<>> /\ dl[r] = NoDownload
                  /\ \E populated \in BOOLEAN : InitFs(populated))

\* The removal of mods failed, config was removed all the same, and the
\* request went on to place its item and to report success.
C19_Witness ==
    \E r \in FileRequests :
        /\ body[r].mode = "full" /\ rmFailed[r] = {"mods"}
        /\ pathJoin(rootDir[r], <<"mods", "old.jar">>) \in DOMAIN files
        /\ pathJoin(rootDir[r], <<"config">>) \notin dirs
        /\ fetched[r] # <<>> /\ resp[r] = 200

\* The root of a full request could not be created: failure response.
C19_WitnessRoot ==
    \E r \in FileRequests :
        /\ body[r].mode = "full" /\ RootNotCreated(r) /\ resp[r] = 500

\* ------------------------------------------------------------------ C20

\* C20: a response is the last thing a request's handler does and no step
\* sends a second one; success is answered only when every usable item was
\* fetched and the last fetch, like the ones before it, resolved; the exit
\* is scheduled in the step that answers success to a request with
\* autoTerminate, and so never for a request answered 400 or 500.
C20_OneResponse ==
    /\ [][\A r \in FileRequests :
            /\ resp[r] # 0 => resp'[r] = resp[r] /\ pc'[r] = "done"
            /\ resp'[r] # resp[r] => resp'[r] \in {200, 400, 500}
            /\ (armed'[r] /\ ~armed[r]) => resp[r] = 0 /\ resp'[r] = 200]_vars
    /\ [](\A r \in FileRequests :
            /\ resp[r] # 0 <=> pc[r] = "done"
            /\ resp[r] = 200 =>
                  /\ failedAt[r] = 0 /\ FetchedSet(r) = Usable(r)
                  /\ fetched[r] # <<>> => LastResolved(r)
            /\ armed[r] => resp[r] = 200 /\ body[r].autoTerminate
            /\ resp[r] \in {400, 500} => ~armed[r]
            /\ (exited /\ \A q \in Requests \ {r} : pc[q] = "absent") => armed[r])

\* A request with autoTerminate fetched its items, answered success and
\* the process has exited; none was scheduled before the answer.
C20_Witness ==
    \E r \in FileRequests :
        /\ body[r].autoTerminate /\ resp[r] = 200 /\ armed[r] /\ exited
        /\ fetched[r] = <<1>> /\ body[r].mode = "full"

\* A request with autoTerminate failed: no exit is scheduled.
C20_WitnessFailure ==
    \E r \in FileRequests :
        /\ body[r].autoTerminate /\ resp[r] = 500 /\ ~armed[r] /\ failedAt[r] = 1

====
